---- MODULE Spec2Model ----
(***************************************************************************)
(* Model of src/script.js: upload() writes "Connecting..." into the        *)
(* element #msg, issues POST /api/process and chains                        *)
(*     fetch(...).then(res => res.json())                                   *)
(*               .then(data => msg.innerText = data.message)                *)
(*               .catch(() => msg.innerText = "Error")                      *)
(* The browser event loop is modelled as tasks (a call of upload(), a       *)
(* network event) that run only when the microtask queue is empty, and      *)
(* promise reaction jobs that are drained from the microtask queue.         *)
(***************************************************************************)
EXTENDS Integers, Sequences, FiniteSets, TLC

\* ---- bounds ----
MaxInvocations == 2

Inv == 1..MaxInvocations

\* ---- literals of the source ----
CONNECTING == "Connecting..."
ERROR == "Error"
METHOD == "POST"
URL == "/api/process"

\* ---- the environment: HTTP statuses and response bodies ----
Statuses == {200, 500}
Texts == {"Done", "Error", CONNECTING}

\* JSON values are tagged tuples; <<"obj">> is an object without a `message`
\* property, <<"obj", v>> an object whose `message` property is v.
Undefined == <<"undefined">>
Members == {<<"null">>, <<"bool", TRUE>>, <<"num", 12>>, <<"arr", <<1, 12>>>>,
            <<"obj">>} \cup {<<"str", t>> : t \in Texts}
NonObjects == {<<"null">>, <<"num", 5>>, <<"str", "Done">>, <<"arr", <<>>>>}
JsonValues == NonObjects \cup {<<"obj">>} \cup {<<"obj", v>> : v \in Members}
\* a body is JSON text denoting a value, or text that is not JSON
Bodies == {<<"json", v>> : v \in JsonValues} \cup {<<"html">>, <<"empty">>}

NoStatus == 0
NoBody == <<"nobody">>
NoData == <<"nodata">>

VARIABLES
  present,     \* does document.getElementById("msg") find an element
  innerText,   \* msg.innerText, the label
  pc,          \* per invocation: position in the promise chain
  status,      \* per invocation: HTTP status of the response received
  body,        \* per invocation: the body that was read
  data,        \* per invocation: the value res.json() fulfilled with
  cause,       \* per invocation: why the chain was rejected ("atonce": the
               \* promise fetch() returned was already rejected)
  microtasks,  \* queue of pending promise reaction jobs (invocation ids)
  invoked,     \* number of calls of upload() so far
  requests,    \* requests issued, in order
  log          \* what the callbacks did, in program order: assignments to
               \* msg.innerText and calls of fetch()

vars == <<present, innerText, pc, status, body, data, cause, microtasks,
          invoked, requests, log>>

\* ---- pure helpers ----
Digit == <<"0", "1", "2", "3", "4", "5", "6", "7", "8", "9">>

RECURSIVE NumberToString(_)
NumberToString(n) ==
  IF n < 10 THEN Digit[n + 1]
  ELSE NumberToString(n \div 10) \o Digit[(n % 10) + 1]

RECURSIVE ArrayJoin(_)
ArrayJoin(a) ==
  IF a = <<>> THEN ""
  ELSE IF Len(a) = 1 THEN NumberToString(a[1])
  ELSE NumberToString(a[1]) \o "," \o ArrayJoin(Tail(a))

\* JSON.parse as done by res.json(): a value, or a failure
IsJson(b) == b[1] = "json"
JsonParse(b) == b[2]

\* data.message: throws a TypeError when data is null
MessageThrows(d) == d[1] = "null"

\* a property read that yields null for an absent property
GetMessage_null(d) == IF d[1] = "obj" /\ Len(d) = 2 THEN d[2] ELSE <<"null">>

GetMessage(d) == IF d[1] = "obj" /\ Len(d) = 2 THEN d[2] ELSE Undefined

\* a plain String() conversion, without [LegacyNullToEmptyString]
ToDOMString_plain(v) ==
  CASE v[1] = "null" -> "null"
    [] v[1] = "undefined" -> "undefined"
    [] v[1] = "str" -> v[2]
    [] v[1] = "num" -> NumberToString(v[2])
    [] v[1] = "bool" -> (IF v[2] THEN "true" ELSE "false")
    [] v[1] = "arr" -> ArrayJoin(v[2])
    [] v[1] = "obj" -> "[object Object]"

\* conversion done by the innerText setter ([LegacyNullToEmptyString] DOMString)
ToDOMString(v) ==
  CASE v[1] = "null" -> ""
    [] v[1] = "undefined" -> "undefined"
    [] v[1] = "str" -> v[2]
    [] v[1] = "num" -> NumberToString(v[2])
    [] v[1] = "bool" -> (IF v[2] THEN "true" ELSE "false")
    [] v[1] = "arr" -> ArrayJoin(v[2])
    [] v[1] = "obj" -> "[object Object]"

\* a callback that shows the whole payload instead of its `message`
MessageText_payload(d) == ToDOMString(d)

\* data => msg.innerText = data.message
MessageText(d) == ToDOMString(GetMessage(d))

\* a catch() callback that reports the cause of the failure
CatchText_byCause(c) == IF c = "network" THEN "Network error" ELSE ERROR

\* () => msg.innerText = "Error"
CatchText(c) == ERROR

Write(i, k, t) == [inv |-> i, kind |-> k, text |-> t]
Fetch(i) == [inv |-> i, kind |-> "request", text |-> METHOD \o " " \o URL]
Request(i) == [inv |-> i, method |-> METHOD, url |-> URL]

Init ==
  /\ present \in BOOLEAN
  /\ innerText = ""
  /\ pc = [i \in Inv |-> "idle"]
  /\ status = [i \in Inv |-> NoStatus]
  /\ body = [i \in Inv |-> NoBody]
  /\ data = [i \in Inv |-> NoData]
  /\ cause = [i \in Inv |-> "none"]
  /\ microtasks = <<>>
  /\ invoked = 0
  /\ requests = <<>>
  /\ log = <<>>

\* a callback that drops the response of every invocation but the latest
ThenWrite_latest(i) == IF i = invoked THEN MessageText(data[i]) ELSE innerText

\* a callback that writes only while the label still reads "Connecting..."
ThenWrite_ifConnecting(i) ==
  IF innerText = CONNECTING THEN MessageText(data[i]) ELSE innerText

\* the text the second then() callback assigns to msg.innerText
ThenWrite(i) == MessageText(data[i])

\* a catch() callback that ignores an exception thrown by the then() callback
CatchWrite_silent(i) ==
  IF cause[i] = "typeerror" THEN innerText ELSE CatchText(cause[i])

\* the text the catch() callback assigns to msg.innerText
CatchWrite(i) == CatchText(cause[i])

\* upload() that skips the label when #msg is missing (msg?.innerText) and
\* goes on to issue the request
uploadThrows_skip ==
  /\ microtasks = <<>>
  /\ invoked < MaxInvocations
  /\ ~present
  /\ invoked' = invoked + 1
  /\ pc' = [pc EXCEPT ![invoked + 1] = "fetching"]
  /\ requests' = Append(requests, Request(invoked + 1))
  /\ log' = Append(log, Fetch(invoked + 1))
  /\ UNCHANGED <<present, innerText, status, body, data, cause, microtasks>>

\* upload() when #msg is missing: `msg` is null, line 3 throws a TypeError
uploadThrows ==
  /\ microtasks = <<>>
  /\ invoked < MaxInvocations
  /\ ~present
  /\ invoked' = invoked + 1
  /\ pc' = [pc EXCEPT ![invoked + 1] = "threw"]
  /\ UNCHANGED <<present, innerText, status, body, data, cause, microtasks,
                 requests, log>>

\* upload() in which a request that fails at once runs the catch() callback
\* before upload() returns
upload_sync ==
  /\ microtasks = <<>>
  /\ invoked < MaxInvocations
  /\ present
  /\ LET i == invoked + 1 IN
     /\ invoked' = i
     /\ requests' = Append(requests, Request(i))
     /\ \/ /\ pc' = [pc EXCEPT ![i] = "fetching"]
           /\ innerText' = CONNECTING
           /\ log' = log \o <<Write(i, "connecting", CONNECTING), Fetch(i)>>
           /\ UNCHANGED cause
        \/ /\ pc' = [pc EXCEPT ![i] = "done"]
           /\ cause' = [cause EXCEPT ![i] = "atonce"]
           /\ innerText' = ERROR
           /\ log' = log \o <<Write(i, "connecting", CONNECTING), Fetch(i),
                               Write(i, "catch", ERROR)>>
  /\ UNCHANGED <<present, status, body, data, microtasks>>

\* upload() that aborts the requests still pending before it starts its own
upload_abort ==
  /\ microtasks = <<>>
  /\ invoked < MaxInvocations
  /\ present
  /\ LET i == invoked + 1 IN
     /\ invoked' = i
     /\ innerText' = CONNECTING
     /\ log' = log \o <<Write(i, "connecting", CONNECTING), Fetch(i)>>
     /\ requests' = Append(requests, Request(i))
     /\ pc' = [j \in Inv |->
                 IF j = i THEN "fetching"
                 ELSE IF pc[j] \in {"fetching", "reading"} THEN "done"
                 ELSE pc[j]]
  /\ UNCHANGED <<present, status, body, data, cause, microtasks>>

\* upload(): lines 2-8 run to completion; the promise fetch() returns is
\* pending, or already settled (the reaction then still runs as a microtask)
upload ==
  /\ microtasks = <<>>
  /\ invoked < MaxInvocations
  /\ present
  /\ LET i == invoked + 1 IN
     /\ invoked' = i
     /\ innerText' = CONNECTING
     /\ log' = log \o <<Write(i, "connecting", CONNECTING), Fetch(i)>>
     /\ requests' = Append(requests, Request(i))
     /\ \/ /\ pc' = [pc EXCEPT ![i] = "fetching"]
           /\ UNCHANGED <<status, cause, microtasks>>
        \/ \E st \in Statuses :
           /\ pc' = [pc EXCEPT ![i] = "responded"]
           /\ status' = [status EXCEPT ![i] = st]
           /\ microtasks' = Append(microtasks, i)
           /\ UNCHANGED cause
        \/ /\ pc' = [pc EXCEPT ![i] = "rejected"]
           /\ cause' = [cause EXCEPT ![i] = "atonce"]
           /\ microtasks' = Append(microtasks, i)
           /\ UNCHANGED status
  /\ UNCHANGED <<present, body, data>>

\* a response handler that shows progress as soon as the headers arrive
fetchFulfilled_progress(i, st) ==
  /\ microtasks = <<>>
  /\ pc[i] = "fetching"
  /\ pc' = [pc EXCEPT ![i] = "responded"]
  /\ status' = [status EXCEPT ![i] = st]
  /\ microtasks' = Append(microtasks, i)
  /\ innerText' = "Processing..."
  /\ UNCHANGED <<present, body, data, cause, invoked, requests, log>>

\* the response headers arrive: the promise of fetch() is fulfilled
fetchFulfilled(i, st) ==
  /\ microtasks = <<>>
  /\ pc[i] = "fetching"
  /\ pc' = [pc EXCEPT ![i] = "responded"]
  /\ status' = [status EXCEPT ![i] = st]
  /\ microtasks' = Append(microtasks, i)
  /\ UNCHANGED <<present, innerText, body, data, cause, invoked, requests, log>>

\* network failure: the promise of fetch() is rejected
fetchRejected(i) ==
  /\ microtasks = <<>>
  /\ pc[i] = "fetching"
  /\ pc' = [pc EXCEPT ![i] = "rejected"]
  /\ cause' = [cause EXCEPT ![i] = "network"]
  /\ microtasks' = Append(microtasks, i)
  /\ UNCHANGED <<present, innerText, status, body, data, invoked, requests, log>>

\* the promise of res.json() settles with body b
Settle(i, b, queue) ==
  /\ body' = [body EXCEPT ![i] = b]
  /\ microtasks' = Append(queue, i)
  /\ IF IsJson(b)
     THEN /\ pc' = [pc EXCEPT ![i] = "parsed"]
          /\ data' = [data EXCEPT ![i] = JsonParse(b)]
          /\ UNCHANGED cause
     ELSE /\ pc' = [pc EXCEPT ![i] = "rejected"]
          /\ cause' = [cause EXCEPT ![i] = "parse"]
          /\ UNCHANGED data

\* res => res.json(): reaction job of the first then()
thenJson ==
  /\ microtasks # <<>>
  /\ LET i == Head(microtasks) IN
     /\ pc[i] = "responded"
     /\ \/ /\ pc' = [pc EXCEPT ![i] = "reading"]
           /\ microtasks' = Tail(microtasks)
           /\ UNCHANGED <<body, data, cause>>
        \/ \E b \in Bodies : Settle(i, b, Tail(microtasks))
  /\ UNCHANGED <<present, innerText, status, invoked, requests, log>>

\* the body has been read: the promise of res.json() settles
jsonSettled(i, b) ==
  /\ microtasks = <<>>
  /\ pc[i] = "reading"
  /\ Settle(i, b, microtasks)
  /\ UNCHANGED <<present, innerText, status, invoked, requests, log>>

\* a then() callback that throws after it has written the label, so that the
\* catch() callback runs as well
thenMessage_rethrow ==
  /\ microtasks # <<>>
  /\ LET i == Head(microtasks) IN
     /\ pc[i] = "parsed"
     /\ pc' = [pc EXCEPT ![i] = "rejected"]
     /\ cause' = [cause EXCEPT ![i] = "typeerror"]
     /\ microtasks' = Append(Tail(microtasks), i)
     /\ IF MessageThrows(data[i])
        THEN UNCHANGED <<innerText, log>>
        ELSE /\ innerText' = ThenWrite(i)
             /\ log' = Append(log, Write(i, "then", ThenWrite(i)))
  /\ UNCHANGED <<present, status, body, data, invoked, requests>>

\* data => msg.innerText = data.message: reaction job of the second then()
thenMessage ==
  /\ microtasks # <<>>
  /\ LET i == Head(microtasks) IN
     /\ pc[i] = "parsed"
     /\ IF MessageThrows(data[i])
        THEN /\ pc' = [pc EXCEPT ![i] = "rejected"]
             /\ cause' = [cause EXCEPT ![i] = "typeerror"]
             /\ microtasks' = Append(Tail(microtasks), i)
             /\ UNCHANGED <<innerText, log>>
        ELSE /\ innerText' = ThenWrite(i)
             /\ log' = Append(log, Write(i, "then", ThenWrite(i)))
             /\ pc' = [pc EXCEPT ![i] = "done"]
             /\ microtasks' = Tail(microtasks)
             /\ UNCHANGED cause
  /\ UNCHANGED <<present, status, body, data, invoked, requests>>

\* a catch() callback that issues the request again
catchError_retry ==
  /\ microtasks # <<>>
  /\ LET i == Head(microtasks) IN
     /\ pc[i] = "rejected"
     /\ innerText' = CatchWrite(i)
     /\ log' = Append(log, Write(i, "catch", CatchWrite(i)))
     /\ requests' = Append(requests, Request(i))
     /\ pc' = [pc EXCEPT ![i] = "fetching"]
     /\ microtasks' = Tail(microtasks)
  /\ UNCHANGED <<present, status, body, data, cause, invoked>>

\* () => msg.innerText = "Error": reaction job of catch()
catchError ==
  /\ microtasks # <<>>
  /\ LET i == Head(microtasks) IN
     /\ pc[i] = "rejected"
     /\ innerText' = CatchWrite(i)
     /\ log' = Append(log, Write(i, "catch", CatchWrite(i)))
     /\ pc' = [pc EXCEPT ![i] = "done"]
     /\ microtasks' = Tail(microtasks)
  /\ UNCHANGED <<present, status, body, data, cause, invoked, requests>>

Next ==
  \/ uploadThrows
  \/ upload
  \/ \E i \in Inv, st \in Statuses : fetchFulfilled(i, st)
  \/ \E i \in Inv : fetchRejected(i)
  \/ thenJson
  \/ \E i \in Inv, b \in Bodies : jsonSettled(i, b)
  \/ thenMessage
  \/ catchError

Spec == Init /\ [][Next]_vars

\* a network event of the request of invocation i: the response arrives, the
\* request fails, or the body has been read
NetworkEvent(i) ==
  \/ \E st \in Statuses : fetchFulfilled(i, st)
  \/ fetchRejected(i)
  \/ \E b \in Bodies : jsonSettled(i, b)

\* the event loop runs every queued reaction job, and every issued request
\* eventually gets its network events; calls of upload() are not forced
FairSpec ==
  /\ Spec
  /\ WF_vars(thenJson)
  /\ WF_vars(thenMessage)
  /\ WF_vars(catchError)
  /\ \A i \in Inv : WF_vars(NetworkEvent(i))

\* ---- vocabulary of the properties ----
IsStart(e) == e.kind = "connecting"
IsCompletion(e) == e.kind \in {"then", "catch"}
StartPos(i) == CHOOSE k \in 1..Len(log) : log[k].inv = i /\ IsStart(log[k])
DonePos(i) ==
  CHOOSE k \in 1..Len(log) : log[k].inv = i /\ IsCompletion(log[k])
HasStart(i) == \E k \in 1..Len(log) : log[k].inv = i /\ IsStart(log[k])
\* the latest assignment to msg.innerText
Last ==
  IF log[Len(log)].kind = "request" THEN log[Len(log) - 1] ELSE log[Len(log)]

\* invocation i has completed and did not overlap any other invocation, and
\* no invocation has started since
Single(i) ==
  /\ pc[i] = "done"
  /\ \A j \in Inv : j > i => pc[j] = "idle"
  /\ \A j \in Inv : j < i => pc[j] = "done" /\ DonePos(j) < StartPos(i)

\* the response of invocation i was received and its body parsed as JSON
Parsed(i) == IsJson(body[i])
HasTextMessage(v) == v[1] = "obj" /\ Len(v) = 2 /\ v[2][1] = "str"

\* the result of a completed request: its message, or "Error"
Result(i) == IF cause[i] = "none" THEN ToDOMString(GetMessage(data[i])) ELSE ERROR

\* C1: every call of upload() writes "Connecting..." and then issues its
\* request, in the step of the call and with no completion write in that step;
\* a completion write (message or "Error") of an invocation happens only in a
\* later step than its "Connecting..." write, also when the request is
\* settled at once.
C1_ConnectingBeforeCompletion ==
  [][ /\ (invoked' # invoked /\ present) =>
           /\ innerText' = CONNECTING
           /\ log' = log \o <<Write(invoked', "connecting", CONNECTING),
                               Fetch(invoked')>>
      /\ \A k \in (Len(requests) + 1)..Len(requests') :
           \E m \in 1..Len(log') : \E n \in 1..Len(log') :
              /\ m < n
              /\ log'[m] = Write(requests'[k].inv, "connecting", CONNECTING)
              /\ log'[n].kind = "request" /\ log'[n].inv = requests'[k].inv
      /\ \A i \in Inv :
           (\E k \in (Len(log) + 1)..Len(log') :
               log'[k].inv = i /\ IsCompletion(log'[k])) => HasStart(i)
    ]_vars

\* an invocation whose request was settled at once has completed, its
\* completion write after its "Connecting..." write
C1_Witness ==
  \E i \in Inv :
    cause[i] = "atonce" /\ pc[i] = "done" /\ StartPos(i) < DonePos(i)

\* C2 as stated: after a single invocation whose response body parsed as a JSON
\* object with text `message` = m, the label is m and is not "Error".
C2_Original ==
  \A i \in Inv : \A m \in Texts :
    (Single(i) /\ body[i] = <<"json", <<"obj", <<"str", m>>>>>>)
      => (innerText = m /\ innerText # ERROR)

\* C2 amended: after a single invocation whose response body parsed as a JSON
\* object with text `message` = m, the label is m, written by the then()
\* callback and not by catch(); it reads "Error" only if m is "Error".
C2_MessageShown ==
  \A i \in Inv : \A m \in Texts :
    (Single(i) /\ body[i] = <<"json", <<"obj", <<"str", m>>>>>>)
      => /\ innerText = m
         /\ Last = Write(i, "then", m)
         /\ cause[i] = "none"
         /\ (m # ERROR => innerText # ERROR)

C2_Witness ==
  \E i \in Inv :
    Single(i) /\ body[i] = <<"json", <<"obj", <<"str", "Done">>>>>>
      /\ innerText = "Done"

\* C3: after a single invocation whose request failed (fetch() rejected, at
\* once or later, or the body was not parseable as JSON), the label is
\* "Error", whatever the cause.
C3_ErrorOnFailure ==
  \A i \in Inv :
    (Single(i) /\ (cause[i] \in {"network", "atonce"} \/ ~Parsed(i)))
      => (innerText = ERROR /\ Last = Write(i, "catch", ERROR))

C3_Witness ==
  \E i \in Inv :
    Single(i) /\ cause[i] = "network" /\ body[i] = NoBody /\ innerText = ERROR

\* C4 as stated: after a single invocation whose response has a non-2xx
\* status, the label is "Error", whatever the body.
C4_ErrorOnHttpStatus ==
  \A i \in Inv :
    (Single(i) /\ status[i] # NoStatus /\ status[i] \notin 200..299)
      => innerText = ERROR

\* C5 as stated: after a single invocation whose body parsed as JSON but is
\* not an object with a text `message`, the label is "Error".
C5_Original ==
  \A i \in Inv :
    (Single(i) /\ Parsed(i) /\ ~HasTextMessage(JsonParse(body[i])))
      => innerText = ERROR

\* what the label shows for a JSON value that is not null and has no text
\* `message`
Shown(v) ==
  CASE v = <<"obj", <<"null">>>> -> ""
    [] v = <<"obj", <<"bool", TRUE>>>> -> "true"
    [] v = <<"obj", <<"num", 12>>>> -> "12"
    [] v = <<"obj", <<"arr", <<1, 12>>>>>> -> "1,12"
    [] v = <<"obj", <<"obj">>>> -> "[object Object]"
    [] OTHER -> "undefined"

\* C5 amended: after a single invocation whose body parsed as JSON but is not
\* an object with a text `message`, the label is "Error" only if the body is
\* JSON null; otherwise the then() callback writes the string conversion of
\* data.message: "undefined" when it is absent (an object without `message`,
\* a number, a string, an array), "" for null, the usual text otherwise.
C5_OtherShapes ==
  \A i \in Inv :
    (Single(i) /\ Parsed(i) /\ ~HasTextMessage(JsonParse(body[i])))
      => IF JsonParse(body[i]) = <<"null">>
         THEN innerText = ERROR /\ Last = Write(i, "catch", ERROR)
         ELSE innerText = Shown(JsonParse(body[i]))
                /\ Last = Write(i, "then", Shown(JsonParse(body[i])))

C5_Witness ==
  \E i \in Inv :
    Single(i) /\ body[i] = <<"json", <<"obj", <<"null">>>>>> /\ innerText = ""

\* C6: after a single invocation whose response is successful and is a JSON
\* object without `message`, the label is the rendering of undefined, not
\* "Error" and not "Connecting...".
C6_MissingMessage ==
  \A i \in Inv :
    (Single(i) /\ status[i] \in 200..299 /\ body[i] = <<"json", <<"obj">>>>)
      => /\ innerText = "undefined"
         /\ innerText # ERROR
         /\ innerText # CONNECTING
         /\ Last = Write(i, "then", "undefined")

C6_Witness ==
  \E i \in Inv :
    Single(i) /\ status[i] = 200 /\ body[i] = <<"json", <<"obj">>>>
      /\ innerText = "undefined"

\* invocation j started while the request of invocation i was pending, both
\* have completed and no other invocation is in the way
Overlapped(i, j) ==
  /\ i < j
  /\ pc[i] = "done" /\ pc[j] = "done"
  /\ StartPos(j) < DonePos(i)
  /\ \A k \in Inv \ {i, j} :
       pc[k] = "idle" \/ (pc[k] = "done" /\ DonePos(k) < StartPos(i))

\* C7: once two overlapping invocations have both completed, the label is the
\* result of the one that completed last, whichever started first.
C7_LastCompletionWins ==
  \A i \in Inv : \A j \in Inv :
    Overlapped(i, j)
      => innerText = (IF DonePos(i) > DonePos(j) THEN Result(i) ELSE Result(j))

\* the invocation that started first completed last and its result, different
\* from the other's, is the label
C7_Witness ==
  \E i \in Inv : \E j \in Inv :
    Overlapped(i, j) /\ DonePos(i) > DonePos(j)
      /\ Result(i) # Result(j) /\ innerText = Result(i)

\* the other outcome: the invocation that started last completed last
C7_WitnessInOrder ==
  \E i \in Inv : \E j \in Inv :
    Overlapped(i, j) /\ DonePos(j) > DonePos(i)
      /\ Result(i) # Result(j) /\ innerText = Result(j)

\* C8: provided #msg exists, the requests issued are exactly one POST to
\* /api/process per invocation of upload(), also after failures.
C8_OneRequestPerInvocation ==
  present =>
    /\ Len(requests) = invoked
    /\ \A k \in 1..Len(requests) :
         requests[k] = [inv |-> k, method |-> "POST", url |-> "/api/process"]

C8_Witness ==
  \E i \in Inv :
    pc[i] = "done" /\ cause[i] # "none" /\ Len(requests) = invoked

\* a started invocation that has not completed, every older one having
\* completed before it started
PendingAlone(i) ==
  /\ i = invoked
  /\ pc[i] \in {"fetching", "responded", "reading", "parsed", "rejected"}
  /\ \A j \in Inv : j < i => pc[j] = "done" /\ DonePos(j) < StartPos(i)

\* C9: the label leaves "Connecting..." only in a step in which a request
\* completes and its callback writes the label, and while the only started
\* request that has not completed is pending the label reads "Connecting...".
C9_ConnectingUntilCompletion ==
  /\ [](\A i \in Inv : PendingAlone(i) => innerText = CONNECTING)
  /\ [][ (innerText = CONNECTING /\ innerText' # CONNECTING) =>
           \E i \in Inv :
             /\ pc[i] # "done" /\ pc'[i] = "done"
             /\ Len(log') = Len(log) + 1
             /\ log'[Len(log')].inv = i
             /\ IsCompletion(log'[Len(log')])
             /\ log'[Len(log')].text = innerText'
       ]_vars

\* a response has arrived for a request whose body is still being read: the
\* label still reads "Connecting..."
C9_Witness ==
  \E i \in Inv : pc[i] = "reading" /\ status[i] # NoStatus
                     /\ innerText = CONNECTING

\* the status of invocation i: "Connecting..." while pending, then its result
StatusOf(i) == IF pc[i] = "done" THEN Result(i) ELSE CONNECTING

\* C10 as stated: the label is the status of the most recently started
\* invocation.
C10_Original ==
  (present /\ invoked >= 1) => innerText = StatusOf(invoked)

\* C10 amended: the label reflects the most recent label event: it reads
\* "Connecting..." if that event is the start of the most recently started
\* invocation, and otherwise the result of the request that completed most
\* recently, which may belong to an older invocation; it is the status of the
\* most recently started invocation whenever no older invocation has
\* completed since that one started.
C10_LatestEvent ==
  (present /\ invoked >= 1) =>
    /\ IF IsStart(Last)
       THEN innerText = CONNECTING /\ Last.inv = invoked
       ELSE innerText = Result(Last.inv) /\ pc[Last.inv] = "done"
    /\ (\A j \in Inv : (j < invoked /\ pc[j] = "done")
                          => DonePos(j) < StartPos(invoked))
         => innerText = StatusOf(invoked)

\* an older invocation completed while the latest is pending: the label is
\* the older one's result
C10_Witness ==
  present /\ invoked >= 2 /\ pc[invoked] = "reading"
    /\ \E j \in Inv : j < invoked /\ pc[j] = "done"
          /\ DonePos(j) > StartPos(invoked)
          /\ innerText = Result(j) /\ innerText # CONNECTING

\* C11: a call of upload() changes nothing of the invocations before it (their
\* position in the chain, response, data and failure cause), removes no
\* request and no label write already made; and every completed invocation
\* has made its own completion write, with its own result.
C11_PendingUntouched ==
  /\ [][ invoked' # invoked =>
           /\ \A j \in Inv :
                j <= invoked =>
                  /\ pc'[j] = pc[j]
                  /\ status'[j] = status[j]
                  /\ body'[j] = body[j]
                  /\ data'[j] = data[j]
                  /\ cause'[j] = cause[j]
           /\ Len(requests') >= Len(requests)
           /\ SubSeq(requests', 1, Len(requests)) = requests
           /\ Len(log') >= Len(log)
           /\ SubSeq(log', 1, Len(log)) = log
       ]_vars
  /\ [](\A i \in Inv :
          pc[i] = "done" =>
            \E k \in 1..Len(log) :
              /\ log[k].inv = i
              /\ IsCompletion(log[k])
              /\ log[k].text = Result(i))

\* a request that was pending when a later invocation started has completed
\* and written its own result
C11_Witness ==
  \E i \in Inv : \E j \in Inv :
    /\ i < j
    /\ pc[i] = "done" /\ pc[j] # "idle"
    /\ StartPos(j) < DonePos(i)
    /\ log[DonePos(i)].text = Result(i)

\* C12: when #msg does not exist, a call of upload() stops at the first label
\* write: it issues no request, starts no promise chain, no callback is ever
\* queued or run for it, and nothing (neither "Connecting..." nor "Error",
\* nor a message) is ever written.
C12_MissingElement ==
  ~present =>
    /\ requests = <<>>
    /\ log = <<>>
    /\ microtasks = <<>>
    /\ innerText \notin {CONNECTING, ERROR}
    /\ innerText = ""
    /\ \A i \in Inv : /\ pc[i] = (IF i <= invoked THEN "threw" ELSE "idle")
                       /\ cause[i] = "none"
                       /\ status[i] = NoStatus

\* upload() has been called on a page without #msg
C12_Witness ==
  ~present /\ invoked >= 1 /\ pc[1] = "threw" /\ requests = <<>>

\* a request of invocation i is under way: its chain has started and its last
\* callback has not run
Pending(i) ==
  pc[i] \in {"fetching", "responded", "reading", "parsed", "rejected"}

\* no response read so far carries the text "Connecting..." as its message
NoConnectingMessage ==
  \A i \in Inv : body[i] # <<"json", <<"obj", <<"str", CONNECTING>>>>>>

\* C13: as long as no server message is the text "Connecting...", whenever the
\* label reads "Connecting..." some request is pending.
C13_ConnectingImpliesPending ==
  (NoConnectingMessage /\ innerText = CONNECTING) => \E i \in Inv : Pending(i)

\* an invocation has completed and shown its result, a later one has started:
\* the label reads "Connecting..." again and that request is pending
C13_Witness ==
  /\ NoConnectingMessage
  /\ innerText = CONNECTING
  /\ \E i \in Inv : \E j \in Inv :
       i < j /\ pc[i] = "done" /\ Pending(j) /\ DonePos(i) < StartPos(j)

\* the converse of C13, which the code does not keep: whenever a request is
\* pending the label reads "Connecting..."
C13_Converse ==
  (\E i \in Inv : Pending(i)) => innerText = CONNECTING

\* C13 without its assumption
C13_Unassumed ==
  innerText = CONNECTING => \E i \in Inv : Pending(i)

\* every invocation has made one completion write if it has completed, and
\* none otherwise
OneWriteEach ==
  \A i \in Inv :
    Cardinality({k \in 1..Len(log) : log[k].inv = i /\ IsCompletion(log[k])})
      = (IF pc[i] = "done" THEN 1 ELSE 0)

\* no request is under way and the label is what the latest completion wrote
Settled ==
  /\ \A i \in Inv : ~Pending(i)
  /\ IsCompletion(Last)
  /\ innerText = Last.text

\* C14 as stated: if every request completes and invocations stop, then from
\* some point on the label is a value written by a completion and does not
\* read "Connecting..."; and every completed request has made exactly one
\* completion write.
C14_Original ==
  /\ []OneWriteEach
  /\ <>[]((present /\ invoked >= 1) => (Settled /\ innerText # CONNECTING))

\* C14 amended: if every request completes and invocations stop, then from
\* some point on the label is the value written by the latest completion, and
\* it reads "Connecting..." only if that text is the message of the latest
\* completed response; and every completed request has made exactly one
\* completion write, by then() or by catch(), never both.
C14_EventuallySettled ==
  /\ []OneWriteEach
  /\ <>[]((present /\ invoked >= 1) =>
            /\ Settled
            /\ innerText = CONNECTING =>
                 /\ Last.kind = "then"
                 /\ body[Last.inv] = <<"json", <<"obj", <<"str", CONNECTING>>>>>>)

\* all invocations have completed and the label holds the result of the
\* latest completion, not "Connecting..."
C14_Witness ==
  /\ present /\ invoked = MaxInvocations
  /\ \A i \in Inv : pc[i] = "done"
  /\ Settled
  /\ innerText = Result(Last.inv)
  /\ innerText # CONNECTING

TypeOK ==
  /\ present \in BOOLEAN
  /\ invoked \in 0..MaxInvocations
  /\ Len(microtasks) <= 1
  /\ Len(requests) <= MaxInvocations
  /\ Len(log) <= 3 * MaxInvocations
====
